---- MODULE Spec2Model ----
(***************************************************************************)
(* Model of the `terraform apply` orchestrator (tfApplyModel), its two     *)
(* change lifecycle workers, the snapshot sub-models and the cancellation  *)
(* watcher.  The bubbletea loop takes one message at a time out of the     *)
(* inbox and hands it to Update; commands run concurrently and resolve to  *)
(* further messages.  Window size, key presses and spinner ticks only      *)
(* concern rendering and are left out.  The plan task, the submit task,    *)
(* the warm-up and the command model around tfApplyModel are collaborators *)
(* outside the core and are modelled by what they send to the loop.        *)
(***************************************************************************)
EXTENDS Bags, FiniteSets, Integers, Sequences, TLC

\* ---------------------------------------------------------------- bounds
MaxProgress == 1      \* responses a StartChange / EndChange stream delivers
MaxRedeliver == 1     \* repeated completion messages (SpecRedeliver only)
MaxCount == 2         \* largest item and edge count given to View (SpecView only)
MaxStream == 11       \* responses of a stream that fills the channel (SpecChan only)

\* ------------------------------------------------------ program constants
ChanCap == 10         \* make(chan tea.Msg, 10)
StartingId == 1       \* m.startingChangeSnapshot.spinner.ID()
EndingId == 2         \* m.endingChangeSnapshot.spinner.ID()
NilUuid == 0          \* zero value of uuid.UUID
ChangeUuid == 1       \* the id getChangeUuid returns: opaque, never compared

taskStatusPending == 0
taskStatusRunning == 1
taskStatusDone == 2
taskStatusError == 3
taskStatusSkipped == 4

Uuids == {ChangeUuid}
NoErr == <<>>

VARIABLES m, inbox, startingChange, endingChange, startWorkers, endWorkers,
          startWaiters, endWaiters, applyProcs, watcher, sigs, ctxDone,
          cancelCalled, env, failed, quitReq, stopped, screen, h

vars == <<m, inbox, startingChange, endingChange, startWorkers, endWorkers,
          startWaiters, endWaiters, applyProcs, watcher, sigs, ctxDone,
          cancelCalled, env, failed, quitReq, stopped, screen, h>>

\* ---------------------------------------------------------------- messages
\* every tea.Msg is a record of one shape; unused fields keep zero values
Msg(t) == [type |-> t, id |-> 0, newState |-> "", items |-> 0, edges |-> 0,
           uuid |-> NilUuid, err |-> NoErr]

\* fatalError{err: fmt.Errorf("<prefix>: %w", err)}
fatalError(e) == [Msg("fatalError") EXCEPT !.err = e]
Wrap(prefix, e) == <<prefix>> \o e

changeIdentifiedMsg(u) == [Msg("changeIdentifiedMsg") EXCEPT !.uuid = u]
StartMsg(snapId, st) ==
    [Msg("startSnapshotMsg") EXCEPT !.id = snapId, !.newState = st]
ProgressMsg(snapId, st, i, e) ==
    [Msg("progressSnapshotMsg") EXCEPT !.id = snapId, !.newState = st,
                                       !.items = i, !.edges = e]
FinishMsg(snapId, st, i, e) ==
    [Msg("finishSnapshotMsg") EXCEPT !.id = snapId, !.newState = st,
                                     !.items = i, !.edges = e]

One(x) == SetToBag({x})
Emit(msgs) == inbox' = inbox (+) msgs

\* ------------------------------------------------------- snapshot sub-model
NewTaskModel(title) == [status |-> taskStatusPending, title |-> title]

NewSnapShotModel(title) ==
    [task |-> NewTaskModel(title), state |-> "pending", items |-> 0, edges |-> 0]

\* taskModel.Update: only the spinner changes, the status is left alone
taskModelUpdate(t, msg) == t

snapshotModelUpdate(s, msg) ==
    CASE msg.type = "startSnapshotMsg" ->
            [s EXCEPT !.state = msg.newState]
      [] msg.type = "progressSnapshotMsg" ->
            [s EXCEPT !.state = msg.newState, !.items = msg.items,
                      !.edges = msg.edges]
      [] msg.type = "finishSnapshotMsg" ->
            [s EXCEPT !.state = msg.newState, !.items = msg.items,
                      !.edges = msg.edges]
      [] OTHER -> [s EXCEPT !.task = taskModelUpdate(s.task, msg)]

\* ------------------------------------------------------------- commands
\* a tea.Cmd is described by what it will do once the runtime starts it
Cmd(k) == [kind |-> k, msg |-> Msg("nil"), uuid |-> NilUuid]
Return(msg) == [Cmd("return") EXCEPT !.msg = msg]   \* func() tea.Msg { return msg }
NilCmd == Cmd("nil")

\* taskModel.Init: the spinner only ticks for a running task
taskModelInit(t) ==
    IF t.status = taskStatusRunning THEN Cmd("spinner.Tick") ELSE NilCmd

snapshotModelInit(s) == taskModelInit(s.task)

\* --------------------------------------------------------------- rendering
\* A rendered line is the sequence of the pieces fmt.Sprintf joins: literal
\* text, %v of a string, %d of a number (ToString).  The glyphs are named.
taskModelView(t) ==
    CASE t.status = taskStatusPending -> <<"(hourglass)", " ", t.title>>
      [] t.status = taskStatusRunning -> <<"(spinner)", " ", t.title>>
      [] t.status = taskStatusDone    -> <<"(check)", " ", t.title>>
      [] t.status = taskStatusError   -> <<"(no entry)", " ", t.title>>
      [] t.status = taskStatusSkipped -> <<"--", " ", t.title>>
      [] OTHER                        -> <<"(question)", " ", t.title>>

\* mutant: the counts are always printed in the plural form
snapshotModelView_AlwaysPlural(s) ==
    IF s.items = 0 /\ s.edges = 0
    THEN taskModelView(s.task) \o <<" - ", s.state>>
    ELSE taskModelView(s.task) \o
         <<" - ", s.state, ": ", ToString(s.items), " items, ",
           ToString(s.edges), " edges">>

snapshotModelView(s) ==
    LET tv == taskModelView(s.task) IN
    IF s.items = 0 /\ s.edges = 0 THEN
        tv \o <<" - ", s.state>>
    ELSE IF s.items = 1 /\ s.edges = 0 THEN
        tv \o <<" - ", s.state, ": 1 item">>
    ELSE IF s.items = 1 /\ s.edges = 1 THEN
        tv \o <<" - ", s.state, ": 1 item, 1 edge">>
    ELSE IF s.items > 1 /\ s.edges = 0 THEN
        tv \o <<" - ", s.state, ": ", ToString(s.items), " items">>
    ELSE IF s.items > 1 /\ s.edges = 1 THEN
        tv \o <<" - ", s.state, ": ", ToString(s.items), " items, 1 edge">>
    ELSE
        tv \o <<" - ", s.state, ": ", ToString(s.items), " items, ",
                ToString(s.edges), " edges">>

\* ------------------------------------------------------------ orchestrator
\* NewTfApplyModel: hasPlanSet says the last argument names a plan file,
\* autoFlag is the last -auto-approve argument ("none" when there is none)
AutoApprove(hasPlanSet, autoFlag) ==
    IF hasPlanSet THEN TRUE ELSE autoFlag = "true"

\* mutant: the plan flag is not pre-set when a plan file is given
NewTfApplyModel_PlanPending(hasPlanSet, autoFlag) ==
    [ ctxSet                 |-> FALSE,
      needPlan               |-> ~hasPlanSet,
      runPlanFinished        |-> FALSE,
      revlinkWarmupFinished  |-> FALSE,
      needApproval           |-> ~AutoApprove(hasPlanSet, autoFlag),
      changeUuid             |-> NilUuid,
      isStarting             |-> FALSE,
      startingChangeSnapshot |-> NewSnapShotModel("Starting Change"),
      runTfApply             |-> FALSE,
      isEnding               |-> FALSE,
      endingChangeSnapshot   |-> NewSnapShotModel("Ending Change") ]

NewTfApplyModel(hasPlanSet, autoFlag) ==
    [ ctxSet                 |-> FALSE,
      needPlan               |-> ~hasPlanSet,
      runPlanFinished        |-> hasPlanSet,
      revlinkWarmupFinished  |-> FALSE,
      needApproval           |-> ~AutoApprove(hasPlanSet, autoFlag),
      changeUuid             |-> NilUuid,
      isStarting             |-> FALSE,
      startingChangeSnapshot |-> NewSnapShotModel("Starting Change"),
      runTfApply             |-> FALSE,
      isEnding               |-> FALSE,
      endingChangeSnapshot   |-> NewSnapShotModel("Ending Change") ]

\* tfApplyModel.Init
tfApplyModelInit(mm) ==
    IF mm.needPlan
    THEN <<Cmd("runPlanTask.Init"), Cmd("submitPlanTask.Init")>>
    ELSE <<>>

\* the closure both barrier cases append
BarrierFollowUp(mm) ==
    IF mm.needPlan THEN Return(Msg("submitPlanNowMsg"))
                   ELSE Return(Msg("startStartingSnapshotMsg"))

OnLoadSourcesConfig(mm, msg) ==
    [m |-> [mm EXCEPT !.ctxSet = TRUE], cmds |-> <<>>, ret |-> FALSE]

\* mutant: the warm-up case fires without looking at the plan flag
OnRevlinkWarmupFinished_Unguarded(mm, msg) ==
    LET m1 == [mm EXCEPT !.revlinkWarmupFinished = TRUE]
    IN  [m |-> m1, cmds |-> <<BarrierFollowUp(m1)>>, ret |-> FALSE]

OnRevlinkWarmupFinished(mm, msg) ==
    LET m1 == [mm EXCEPT !.revlinkWarmupFinished = TRUE]
    IN  [m |-> m1,
         cmds |-> IF m1.runPlanFinished THEN <<BarrierFollowUp(m1)>> ELSE <<>>,
         ret |-> FALSE]

\* mutant: the plan case fires without looking at the warm-up flag
OnRunPlanFinished_Unguarded(mm, msg) ==
    LET m1 == [mm EXCEPT !.runPlanFinished = TRUE]
    IN  [m |-> m1, cmds |-> <<BarrierFollowUp(m1)>>, ret |-> FALSE]

OnRunPlanFinished(mm, msg) ==
    LET m1 == [mm EXCEPT !.runPlanFinished = TRUE]
    IN  [m |-> m1,
         cmds |-> IF m1.revlinkWarmupFinished THEN <<BarrierFollowUp(m1)>> ELSE <<>>,
         ret |-> FALSE]

OnSubmitPlanFinished(mm, msg) ==
    [m |-> mm, cmds |-> <<Return(Msg("startStartingSnapshotMsg"))>>, ret |-> FALSE]

OnStartStartingSnapshot(mm, msg) ==
    LET m1 == [mm EXCEPT !.isStarting = TRUE]
    IN  [m |-> m1,
         cmds |-> <<snapshotModelInit(m1.startingChangeSnapshot),
                    Cmd("startStartChangeCmd"),
                    Cmd("waitForStartingActivity")>>,
         ret |-> FALSE]

\* mutant: the id is stored and the waiter is not issued again
OnChangeIdentified_NoRearm(mm, msg) ==
    [m |-> [mm EXCEPT !.changeUuid = msg.uuid], cmds |-> <<>>, ret |-> FALSE]

OnChangeIdentified(mm, msg) ==
    [m |-> [mm EXCEPT !.changeUuid = msg.uuid],
     cmds |-> <<Cmd("waitForStartingActivity")>>, ret |-> FALSE]

\* mutant: a Progress does not issue the waiter again
OnSnapshotActivity_ProgressNoRearm(mm, msg) ==
    [m |-> mm,
     cmds |-> IF msg.type = "progressSnapshotMsg" THEN <<>>
              ELSE IF msg.id = StartingId THEN <<Cmd("waitForStartingActivity")>>
              ELSE IF msg.id = EndingId THEN <<Cmd("waitForEndingActivity")>>
              ELSE <<>>,
     ret |-> FALSE]

\* startSnapshotMsg and progressSnapshotMsg: re-arm the waiter of the channel
OnSnapshotActivity(mm, msg) ==
    [m |-> mm,
     cmds |-> IF msg.id = StartingId THEN <<Cmd("waitForStartingActivity")>>
              ELSE IF msg.id = EndingId THEN <<Cmd("waitForEndingActivity")>>
              ELSE <<>>,
     ret |-> FALSE]

\* mutant: the Finish of either snapshot starts the apply
OnFinishSnapshot_AnyId(mm, msg) ==
    [m |-> [mm EXCEPT !.isStarting = FALSE, !.runTfApply = TRUE],
     cmds |-> <<Return(Msg("runTfApplyMsg"))>>, ret |-> FALSE]

OnFinishSnapshot(mm, msg) ==
    IF msg.id = StartingId
    THEN [m |-> [mm EXCEPT !.isStarting = FALSE, !.runTfApply = TRUE],
          cmds |-> <<Return(Msg("runTfApplyMsg"))>>, ret |-> FALSE]
    ELSE IF msg.id = EndingId
    THEN [m |-> mm, cmds |-> <<Return(Msg("delayQuitMsg"))>>, ret |-> FALSE]
    ELSE [m |-> mm, cmds |-> <<>>, ret |-> FALSE]

\* runTfApplyMsg returns from Update at once with the ExecProcess command
OnRunTfApply(mm, msg) ==
    [m |-> mm, cmds |-> <<Cmd("tea.ExecProcess")>>, ret |-> TRUE]

\* startEndChangeCmd copies m.changeUuid when the command is built
startEndChangeCmd(mm) == [Cmd("startEndChangeCmd") EXCEPT !.uuid = mm.changeUuid]

OnTfApplyFinished(mm, msg) ==
    LET m1 == [mm EXCEPT !.isEnding = TRUE]
    IN  [m |-> m1,
         cmds |-> <<snapshotModelInit(m1.endingChangeSnapshot),
                    startEndChangeCmd(m1),
                    Cmd("waitForEndingActivity")>>,
         ret |-> FALSE]

OnOther(mm, msg) == [m |-> mm, cmds |-> <<>>, ret |-> FALSE]

UpdateSwitch(mm, msg) ==
    CASE msg.type = "loadSourcesConfigMsg"     -> OnLoadSourcesConfig(mm, msg)
      [] msg.type = "revlinkWarmupFinishedMsg" -> OnRevlinkWarmupFinished(mm, msg)
      [] msg.type = "runPlanFinishedMsg"       -> OnRunPlanFinished(mm, msg)
      [] msg.type = "submitPlanFinishedMsg"    -> OnSubmitPlanFinished(mm, msg)
      [] msg.type = "startStartingSnapshotMsg" -> OnStartStartingSnapshot(mm, msg)
      [] msg.type = "changeIdentifiedMsg"      -> OnChangeIdentified(mm, msg)
      [] msg.type = "startSnapshotMsg"         -> OnSnapshotActivity(mm, msg)
      [] msg.type = "progressSnapshotMsg"      -> OnSnapshotActivity(mm, msg)
      [] msg.type = "finishSnapshotMsg"        -> OnFinishSnapshot(mm, msg)
      [] msg.type = "runTfApplyMsg"            -> OnRunTfApply(mm, msg)
      [] msg.type = "tfApplyFinishedMsg"       -> OnTfApplyFinished(mm, msg)
      [] OTHER                                 -> OnOther(mm, msg)

\* the part of Update after the switch: both snapshots see every message, and
\* the plan and submit tasks see it when a plan is needed (fwd)
UpdateTail(r, msg) ==
    IF r.ret THEN [m |-> r.m, cmds |-> r.cmds, fwd |-> FALSE]
    ELSE [m |-> [r.m EXCEPT
                   !.startingChangeSnapshot =
                       snapshotModelUpdate(r.m.startingChangeSnapshot, msg),
                   !.endingChangeSnapshot =
                       snapshotModelUpdate(r.m.endingChangeSnapshot, msg)],
          cmds |-> r.cmds,
          fwd |-> r.m.needPlan]

Update(mm, msg) == UpdateTail(UpdateSwitch(mm, msg), msg)

\* ------------------------------------------------- starting the commands
RECURSIVE Returned(_)
Returned(cmds) ==
    IF cmds = <<>> THEN EmptyBag
    ELSE (IF Head(cmds).kind = "return" THEN One(Head(cmds).msg) ELSE EmptyBag)
         (+) Returned(Tail(cmds))

OfKind(cmds, k) == SelectSeq(cmds, LAMBDA c : c.kind = k)
Count(cmds, k) == Len(OfKind(cmds, k))

ZeroResponse == [state |-> "STATE_UNSPECIFIED", items |-> 0, edges |-> 0]

\* a worker as its command starts: the start worker before the ticket link,
\* the end worker, which has its Change id already, at the send of Start
NewWorker(pc, u) == [pc |-> pc, uuid |-> u, last |-> ZeroResponse, n |-> 0]

\* ------------------------------------------------------------------- Init
InitEnv(cmds) ==
    [config |-> "pending", warmup |-> "running",
     plan |-> IF Count(cmds, "runPlanTask.Init") > 0 THEN "running" ELSE "idle",
     submit |-> IF Count(cmds, "submitPlanTask.Init") > 0 THEN "ready" ELSE "idle",
     redelivered |-> 0]

InitHistory ==
    [barrier |-> 0, planDelivered |-> 0, warmDelivered |-> 0, fwd |-> 0,
     startInit |-> 0, startFinish |-> 0, launches |-> 0, applyOk |-> 0,
     applyFail |-> 0, applyErr |-> NoErr, endInit |-> 0, endFinish |-> 0,
     identifyErr |-> NoErr, fatalErr |-> NoErr, first |-> "none",
     watcherQuit |-> 0]

\* everything but the orchestrator and its collaborators: nothing sent,
\* nothing started, nothing rendered
InitRest ==
    /\ inbox = EmptyBag
    /\ startingChange = <<>>
    /\ endingChange = <<>>
    /\ startWorkers = <<>>
    /\ endWorkers = <<>>
    /\ startWaiters = 0
    /\ endWaiters = 0
    /\ applyProcs = 0
    /\ watcher = "waiting"
    /\ sigs = 0
    /\ ctxDone = FALSE
    /\ cancelCalled = FALSE
    /\ failed = FALSE
    /\ quitReq = FALSE
    /\ stopped = FALSE
    /\ screen = <<>>
    /\ h = InitHistory

Init ==
    /\ \E hasPlanSet \in BOOLEAN, autoFlag \in {"none", "true", "false"} :
          /\ m = NewTfApplyModel(hasPlanSet, autoFlag)
          /\ env = InitEnv(tfApplyModelInit(NewTfApplyModel(hasPlanSet, autoFlag)))
    /\ InitRest

loopVars == <<failed, quitReq, stopped, screen>>
watcherVars == <<watcher, sigs, ctxDone, cancelCalled>>
chanVars == <<startingChange, endingChange>>
workerVars == <<startWorkers, endWorkers, startWaiters, endWaiters, applyProcs>>

\* ------------------------------------------------------------- the loop
IsBarrierMsg(msg) ==
    msg.type \in {"revlinkWarmupFinishedMsg", "runPlanFinishedMsg"}

Bump(msg, r) ==
    [h EXCEPT
       !.barrier = @ + (IF IsBarrierMsg(msg) THEN Count(r.cmds, "return") ELSE 0),
       !.planDelivered = @ + (IF msg.type = "runPlanFinishedMsg" THEN 1 ELSE 0),
       !.warmDelivered = @ + (IF msg.type = "revlinkWarmupFinishedMsg" THEN 1 ELSE 0),
       !.first = IF @ = "none" /\ IsBarrierMsg(msg) THEN msg.type ELSE @,
       !.fwd = @ + (IF r.fwd THEN 1 ELSE 0),
       !.startInit = @ + Count(r.cmds, "startStartChangeCmd"),
       !.endInit = @ + Count(r.cmds, "startEndChangeCmd"),
       !.launches = @ + Count(r.cmds, "tea.ExecProcess"),
       !.startFinish = @ + (IF msg.type = "finishSnapshotMsg" /\ msg.id = StartingId
                            THEN 1 ELSE 0),
       !.endFinish = @ + (IF msg.type = "finishSnapshotMsg" /\ msg.id = EndingId
                          THEN 1 ELSE 0)]

\* the submit task sees submitPlanNowMsg through the forward at the end of Update
SubmitSees(r, msg) ==
    IF r.fwd /\ msg.type = "submitPlanNowMsg" /\ env.submit = "ready"
    THEN "running" ELSE env.submit

\* one turn of the loop: a message goes through tfApplyModel.Update and the
\* commands it returns are started
Deliver(msg) ==
    /\ ~stopped
    /\ BagIn(msg, inbox)
    /\ msg.type \notin {"fatalError", "delayQuitMsg", "tea.Quit"}
    /\ LET r == Update(m, msg) IN
         /\ m' = r.m
         /\ inbox' = (inbox (-) One(msg)) (+) Returned(r.cmds)
         /\ startWorkers' = startWorkers \o
               [i \in 1..Count(r.cmds, "startStartChangeCmd") |-> NewWorker("begin", NilUuid)]
         /\ endWorkers' = endWorkers \o
               [i \in 1..Count(r.cmds, "startEndChangeCmd") |->
                    NewWorker("sendStart", OfKind(r.cmds, "startEndChangeCmd")[i].uuid)]
         /\ startWaiters' = startWaiters + Count(r.cmds, "waitForStartingActivity")
         /\ endWaiters' = endWaiters + Count(r.cmds, "waitForEndingActivity")
         /\ applyProcs' = applyProcs + Count(r.cmds, "tea.ExecProcess")
         /\ env' = [env EXCEPT !.submit = SubmitSees(r, msg)]
         /\ h' = Bump(msg, r)
    /\ UNCHANGED <<chanVars, watcherVars, loopVars>>

\* ------------------------------------------------- change lifecycle workers
\* Once the loop has stopped the program exits: what workers, tasks and the
\* subprocess would do after that is not followed.
Phases == {"start", "end"}
Workers(ph) == IF ph = "start" THEN startWorkers ELSE endWorkers
Chan(ph) == IF ph = "start" THEN startingChange ELSE endingChange
SnapId(ph) == IF ph = "start" THEN StartingId ELSE EndingId
StartLabel(ph) == IF ph = "start" THEN "starting" ELSE "ending"

SetWorker(ph, i, w) ==
    IF ph = "start"
    THEN startWorkers' = [startWorkers EXCEPT ![i] = w] /\ UNCHANGED endWorkers
    ELSE endWorkers' = [endWorkers EXCEPT ![i] = w] /\ UNCHANGED startWorkers

SetChan(ph, c) ==
    IF ph = "start"
    THEN startingChange' = c /\ UNCHANGED endingChange
    ELSE endingChange' = c /\ UNCHANGED startingChange

workerFrameNoH == <<m, startWaiters, endWaiters, applyProcs, watcherVars, env,
                    loopVars>>
workerFrame == <<workerFrameNoH, h>>

\* the worker returns: its goroutine ends and msgs goes to the loop
WorkerReturns(ph, i, msgs) ==
    /\ SetWorker(ph, i, [Workers(ph)[i] EXCEPT !.pc = "returned"])
    /\ Emit(msgs)
    /\ UNCHANGED chanVars

\* ticket link from the configuration or from the plan file
TicketLinkResult(err) ==
    IF err # NoErr THEN One(fatalError(err)) ELSE EmptyBag

\* mutant: the error of getChangeUuid is not checked
IdentifyResult_Unchecked(err) == EmptyBag

\* getChangeUuid and the check of its error
IdentifyResult(err) ==
    IF err # NoErr
    THEN One(fatalError(Wrap("failed to identify change", err)))
    ELSE EmptyBag

\* the start worker up to its first send: ticket link, then identify/create
StartIdentify(i) ==
    /\ ~stopped
    /\ startWorkers[i].pc = "begin"
    /\ \E terr \in {NoErr, <<"no ticket link in plan">>},
          ierr \in {NoErr, <<"identify failed">>}, u \in Uuids :
          IF TicketLinkResult(terr) # EmptyBag
          THEN WorkerReturns("start", i, TicketLinkResult(terr)) /\ UNCHANGED h
          ELSE /\ h' = [h EXCEPT !.identifyErr = ierr]
               /\ IF IdentifyResult(ierr) # EmptyBag
                  THEN WorkerReturns("start", i, IdentifyResult(ierr))
                  ELSE /\ SetWorker("start", i,
                             [startWorkers[i] EXCEPT !.pc = "sendId", !.uuid = u])
                       /\ UNCHANGED <<inbox, chanVars>>
    /\ UNCHANGED workerFrameNoH

\* the n-th response of a stream: phase label and cumulative counts
Response(n) == [state |-> "STATE_TAKING_SNAPSHOT", items |-> n, edges |-> n - 1]

\* mutant: the start worker announces the Change id a second time
Outgoing_IdTwice(ph, w) ==
    CASE w.pc = "sendId" -> changeIdentifiedMsg(w.uuid)
      [] w.pc = "sendStart" ->
            IF ph = "start" THEN changeIdentifiedMsg(w.uuid)
            ELSE StartMsg(SnapId(ph), StartLabel(ph))

\* what a worker at a send puts on its channel
Outgoing(ph, w) ==
    CASE w.pc = "sendId" -> changeIdentifiedMsg(w.uuid)
      [] w.pc = "sendStart" -> StartMsg(SnapId(ph), StartLabel(ph))

AfterSend(pc) ==
    CASE pc = "sendId" -> "sendStart"
      [] pc = "sendStart" -> "open"

\* a send on the buffered channel blocks while the buffer is full
WorkerSend(ph, i) ==
    LET w == Workers(ph)[i] IN
    /\ ~stopped
    /\ w.pc \in {"sendId", "sendStart"}
    /\ Len(Chan(ph)) < ChanCap
    /\ SetChan(ph, Append(Chan(ph), Outgoing(ph, w)))
    /\ SetWorker(ph, i, [w EXCEPT !.pc = AfterSend(w.pc)])
    /\ UNCHANGED <<inbox, workerFrame>>

OpenPrefix(ph) ==
    IF ph = "start" THEN "failed to start change" ELSE "failed to end change"
ProcessPrefix(ph) ==
    IF ph = "start" THEN "failed to process start change"
    ELSE "failed to process end change"

\* client.StartChange / client.EndChange fails
WorkerOpenFails(ph, i) ==
    LET w == Workers(ph)[i] IN
    /\ ~stopped
    /\ w.pc = "open"
    /\ WorkerReturns(ph, i, One(fatalError(Wrap(OpenPrefix(ph), <<"stream refused">>))))
    /\ UNCHANGED workerFrame

\* stream.Receive() delivers a response and the worker sends its Progress
StreamReceive(ph, i, max) ==
    LET w == Workers(ph)[i]
        resp == Response(w.n + 1) IN
    /\ ~stopped
    /\ w.pc \in {"open", "stream"}
    /\ w.n < max
    /\ Len(Chan(ph)) < ChanCap
    /\ SetChan(ph, Append(Chan(ph),
            ProgressMsg(SnapId(ph), resp.state, resp.items, resp.edges)))
    /\ SetWorker(ph, i, [w EXCEPT !.pc = "stream", !.last = resp, !.n = @ + 1])
    /\ UNCHANGED <<inbox, workerFrame>>

\* a stream of at most MaxProgress responses
WorkerProgress(ph, i) == StreamReceive(ph, i, MaxProgress)

\* a stream long enough to fill the channel
WorkerProgressLong(ph, i) == StreamReceive(ph, i, MaxStream)

\* what the worker returns once Receive() reports the end of the stream
StreamEndResult(ph, w, err) ==
    IF err # NoErr
    THEN fatalError(Wrap(ProcessPrefix(ph), err))
    ELSE FinishMsg(SnapId(ph), w.last.state, w.last.items, w.last.edges)

WorkerStreamEnd(ph, i) ==
    LET w == Workers(ph)[i] IN
    /\ ~stopped
    /\ w.pc \in {"open", "stream"}
    /\ \E err \in {NoErr, <<"stream broken">>} :
          WorkerReturns(ph, i, One(StreamEndResult(ph, w, err)))
    /\ UNCHANGED workerFrame

\* waitForStartingActivity / waitForEndingActivity: one receive, then the
\* received message goes to the loop
WaitForActivity(ph) ==
    /\ ~stopped
    /\ IF ph = "start" THEN startWaiters > 0 ELSE endWaiters > 0
    /\ Chan(ph) # <<>>
    /\ Emit(One(Head(Chan(ph))))
    /\ SetChan(ph, Tail(Chan(ph)))
    /\ IF ph = "start"
       THEN startWaiters' = startWaiters - 1 /\ UNCHANGED endWaiters
       ELSE endWaiters' = endWaiters - 1 /\ UNCHANGED startWaiters
    /\ UNCHANGED <<m, startWorkers, endWorkers, applyProcs, watcherVars, env,
                   loopVars, h>>

\* ------------------------------------------------------ apply subprocess
\* mutant: the callback reports success whatever the process did
ExecCallback_IgnoresErr(err) == Msg("tfApplyFinishedMsg")

\* the callback given to tea.ExecProcess
ExecCallback(err) ==
    IF err # NoErr
    THEN fatalError(Wrap("failed to run terraform apply", err))
    ELSE Msg("tfApplyFinishedMsg")

ApplyExits ==
    /\ ~stopped
    /\ applyProcs > 0
    /\ \E err \in {NoErr, <<"exit status 1">>, <<"executable file not found">>} :
          /\ Emit(One(ExecCallback(err)))
          /\ h' = [h EXCEPT !.applyOk = @ + (IF err = NoErr THEN 1 ELSE 0),
                            !.applyFail = @ + (IF err = NoErr THEN 0 ELSE 1),
                            !.applyErr = err]
    /\ applyProcs' = applyProcs - 1
    /\ UNCHANGED <<m, chanVars, startWorkers, endWorkers, startWaiters,
                   endWaiters, watcherVars, env, loopVars>>

\* --------------------------------------------------- cancellation watcher
\* mutant: the select waits for signals only
WatcherReady_SignalsOnly(s, done) == IF s > 0 THEN {"sigs"} ELSE {}

\* the cases of the select that can run
WatcherReady(s, done) ==
    (IF s > 0 THEN {"sigs"} ELSE {}) \cup (IF done THEN {"ctx.Done"} ELSE {})

\* mutant: no case calls cancel()
WatcherCancels_Never(branch) == FALSE

\* whether the case calls cancel()
WatcherCancels(branch) == branch = "sigs"

\* the value the command returns to the loop
WatcherResult == Msg("tea.Quit")

\* watcher holds the case of the select that ran, "waiting" before that;
\* cancelCalled says that the watcher has called cancel()
WatcherSelect ==
    /\ watcher = "waiting"
    /\ \E branch \in WatcherReady(sigs, ctxDone) :
          /\ watcher' = branch
          /\ sigs' = IF branch = "sigs" THEN sigs - 1 ELSE sigs
          /\ cancelCalled' = (cancelCalled \/ WatcherCancels(branch))
          /\ ctxDone' = (ctxDone \/ WatcherCancels(branch))
    /\ UNCHANGED <<m, inbox, chanVars, workerVars, env, loopVars, h>>

\* return tea.Quit, after the select
WatcherReturn ==
    /\ watcher # "waiting"
    /\ h.watcherQuit = 0
    /\ Emit(One(WatcherResult))
    /\ h' = [h EXCEPT !.watcherQuit = 1]
    /\ UNCHANGED <<m, chanVars, workerVars, watcherVars, env, loopVars>>

\* SIGINT or SIGTERM: signal.Notify sends without blocking into a buffer of
\* one; nothing reads the buffer once the watcher has returned
Signal ==
    /\ watcher = "waiting"
    /\ sigs = 0
    /\ sigs' = 1
    /\ UNCHANGED <<m, inbox, chanVars, workerVars, watcher, ctxDone,
                   cancelCalled, env, loopVars, h>>

\* the root context is cancelled by other means (timeout, parent)
CancelCtx ==
    /\ ~ctxDone
    /\ ctxDone' = TRUE
    /\ UNCHANGED <<m, inbox, chanVars, workerVars, watcher, sigs,
                   cancelCalled, env, loopVars, h>>

\* ------------------------------------------- collaborators outside the core
\* The plan task and the warm-up run on the context and configuration that
\* loadSourcesConfigMsg carries, so they finish after it has been processed.
envFrame == <<m, chanVars, workerVars, watcherVars, loopVars, h>>

EnvLoadSourcesConfig ==
    /\ ~stopped
    /\ env.config = "pending"
    /\ env' = [env EXCEPT !.config = "sent"]
    /\ Emit(One(Msg("loadSourcesConfigMsg")))
    /\ UNCHANGED envFrame

EnvWarmupFinished ==
    /\ ~stopped
    /\ m.ctxSet
    /\ env.warmup = "running"
    /\ env' = [env EXCEPT !.warmup = "done"]
    /\ Emit(One(Msg("revlinkWarmupFinishedMsg")))
    /\ UNCHANGED envFrame

EnvPlanFinished ==
    /\ ~stopped
    /\ m.ctxSet
    /\ env.plan = "running"
    /\ env' = [env EXCEPT !.plan = "done"]
    /\ Emit(One(Msg("runPlanFinishedMsg")))
    /\ UNCHANGED envFrame

EnvPlanFailed ==
    /\ ~stopped
    /\ m.ctxSet
    /\ env.plan = "running"
    /\ env' = [env EXCEPT !.plan = "failed"]
    /\ Emit(One(fatalError(<<"plan failed">>)))
    /\ UNCHANGED envFrame

EnvSubmitFinished ==
    /\ ~stopped
    /\ env.submit = "running"
    /\ env' = [env EXCEPT !.submit = "done"]
    /\ Emit(One(Msg("submitPlanFinishedMsg")))
    /\ UNCHANGED envFrame

EnvSubmitFailed ==
    /\ ~stopped
    /\ env.submit = "running"
    /\ env' = [env EXCEPT !.submit = "failed"]
    /\ Emit(One(fatalError(<<"submit failed">>)))
    /\ UNCHANGED envFrame

\* a completion message that arrives once more (SpecRedeliver only)
Redeliver ==
    /\ ~stopped
    /\ env.redelivered < MaxRedeliver
    /\ \E t \in {"runPlanFinishedMsg", "revlinkWarmupFinishedMsg"} :
          /\ IF t = "runPlanFinishedMsg" THEN env.plan = "done"
                                         ELSE env.warmup = "done"
          /\ Emit(One(Msg(t)))
    /\ env' = [env EXCEPT !.redelivered = @ + 1]
    /\ UNCHANGED envFrame

\* the loop around tfApplyModel: fatal errors, scheduled shutdown, quit
loopFrame == <<m, chanVars, workerVars, watcherVars, env, screen>>

\* mutant: the error is recorded and the loop goes on
CmdFatalError_GoesOn(msg) ==
    /\ ~stopped
    /\ BagIn(msg, inbox)
    /\ msg.type = "fatalError"
    /\ inbox' = inbox (-) One(msg)
    /\ failed' = TRUE
    /\ h' = [h EXCEPT !.fatalErr = msg.err]
    /\ UNCHANGED <<quitReq, stopped, loopFrame>>

CmdFatalError(msg) ==
    /\ ~stopped
    /\ BagIn(msg, inbox)
    /\ msg.type = "fatalError"
    /\ inbox' = inbox (-) One(msg)
    /\ failed' = TRUE
    /\ quitReq' = TRUE
    /\ stopped' = TRUE
    /\ h' = [h EXCEPT !.fatalErr = msg.err]
    /\ UNCHANGED loopFrame

CmdDelayQuit(msg) ==
    /\ ~stopped
    /\ BagIn(msg, inbox)
    /\ msg.type = "delayQuitMsg"
    /\ inbox' = inbox (-) One(msg)
    /\ quitReq' = TRUE
    /\ stopped' = TRUE
    /\ UNCHANGED <<failed, loopFrame, h>>

LoopQuit(msg) ==
    /\ ~stopped
    /\ BagIn(msg, inbox)
    /\ msg.type = "tea.Quit"
    /\ inbox' = inbox (-) One(msg)
    /\ quitReq' = TRUE
    /\ stopped' = TRUE
    /\ UNCHANGED <<failed, loopFrame, h>>

\* --------------------------------------------------------- specifications
Next ==
    \/ \E msg \in BagToSet(inbox) : Deliver(msg)
    \/ \E msg \in BagToSet(inbox) : CmdFatalError(msg)
    \/ \E msg \in BagToSet(inbox) : CmdDelayQuit(msg)
    \/ \E msg \in BagToSet(inbox) : LoopQuit(msg)
    \/ \E i \in DOMAIN startWorkers : StartIdentify(i)
    \/ \E ph \in Phases : \E i \in DOMAIN Workers(ph) : WorkerSend(ph, i)
    \/ \E ph \in Phases : \E i \in DOMAIN Workers(ph) : WorkerOpenFails(ph, i)
    \/ \E ph \in Phases : \E i \in DOMAIN Workers(ph) : WorkerProgress(ph, i)
    \/ \E ph \in Phases : \E i \in DOMAIN Workers(ph) : WorkerStreamEnd(ph, i)
    \/ \E ph \in Phases : WaitForActivity(ph)
    \/ ApplyExits
    \/ WatcherSelect
    \/ WatcherReturn
    \/ Signal
    \/ CancelCtx
    \/ EnvLoadSourcesConfig
    \/ EnvWarmupFinished
    \/ EnvPlanFinished
    \/ EnvPlanFailed
    \/ EnvSubmitFinished
    \/ EnvSubmitFailed

Spec == Init /\ [][Next]_vars

\* the watcher's goroutine is scheduled
FairSpec == Spec /\ WF_vars(WatcherSelect) /\ WF_vars(WatcherReturn)

\* every step of the program itself: all of Next but the arrival of a signal
\* and the cancellation of the root context from outside
RunSteps ==
    \/ \E msg \in BagToSet(inbox) : Deliver(msg)
    \/ \E msg \in BagToSet(inbox) : CmdFatalError(msg)
    \/ \E msg \in BagToSet(inbox) : CmdDelayQuit(msg)
    \/ \E msg \in BagToSet(inbox) : LoopQuit(msg)
    \/ \E i \in DOMAIN startWorkers : StartIdentify(i)
    \/ \E ph \in Phases : \E i \in DOMAIN Workers(ph) : WorkerSend(ph, i)
    \/ \E ph \in Phases : \E i \in DOMAIN Workers(ph) : WorkerOpenFails(ph, i)
    \/ \E ph \in Phases : \E i \in DOMAIN Workers(ph) : WorkerProgress(ph, i)
    \/ \E ph \in Phases : \E i \in DOMAIN Workers(ph) : WorkerStreamEnd(ph, i)
    \/ \E ph \in Phases : WaitForActivity(ph)
    \/ ApplyExits
    \/ WatcherSelect
    \/ WatcherReturn
    \/ EnvLoadSourcesConfig
    \/ EnvWarmupFinished
    \/ EnvPlanFinished
    \/ EnvPlanFailed
    \/ EnvSubmitFinished
    \/ EnvSubmitFailed

\* the loop and the goroutines of the commands keep being scheduled, and the
\* services and the subprocess they wait for answer
FairRun == Spec /\ WF_vars(RunSteps)

\* the parallel phase with a completion message that arrives again; what
\* follows startStartingSnapshotMsg is not followed here
NextRedeliver ==
    \/ \E msg \in BagToSet(inbox) : Deliver(msg)
    \/ \E msg \in BagToSet(inbox) : CmdFatalError(msg)
    \/ EnvLoadSourcesConfig
    \/ EnvWarmupFinished
    \/ EnvPlanFinished
    \/ EnvPlanFailed
    \/ EnvSubmitFinished
    \/ EnvSubmitFailed
    \/ Redeliver

SpecRedeliver == Init /\ [][NextRedeliver]_vars

\* snapshotModel.View on its own: a snapshot with any status, phase label and
\* counts up to MaxCount is rendered once
Statuses == {taskStatusPending, taskStatusRunning, taskStatusDone,
             taskStatusError, taskStatusSkipped}
Labels == {"starting", "STATE_TAKING_SNAPSHOT"}

InitView ==
    /\ \E st \in Statuses, lb \in Labels, i \in 0..MaxCount, e \in 0..MaxCount :
          m = [NewTfApplyModel(TRUE, "none") EXCEPT
                 !.startingChangeSnapshot =
                     [task |-> [NewTaskModel("Starting Change") EXCEPT !.status = st],
                      state |-> lb, items |-> i, edges |-> e]]
    /\ env = InitEnv(<<>>)
    /\ InitRest

Render ==
    /\ screen = <<>>
    /\ screen' = snapshotModelView(m.startingChangeSnapshot)
    /\ UNCHANGED <<m, inbox, chanVars, workerVars, watcherVars, env, failed,
                   quitReq, stopped, h>>

NextView == Render

SpecView == InitView /\ [][NextView]_vars

\* ------------------------------------------------------------------ claims
InInbox(t) == \E x \in BagToSet(inbox) : x.type = t
BothFlags == m.runPlanFinished /\ m.revlinkWarmupFinished

\* C1: in a run where runPlanFinishedMsg and revlinkWarmupFinishedMsg have
\* each gone through Update exactly once, the barrier's follow-up command
\* has been emitted exactly once, whichever of the two came first.
C1_BarrierFiresOnce ==
    (h.planDelivered = 1 /\ h.warmDelivered = 1) => h.barrier = 1

\* both delivered, the warm-up message first, the follow-up emitted once
C1_Witness ==
    /\ h.planDelivered = 1 /\ h.warmDelivered = 1
    /\ h.first = "revlinkWarmupFinishedMsg"
    /\ h.barrier = 1

\* C2: once both flags are true and the barrier has fired, a further
\* runPlanFinishedMsg or revlinkWarmupFinishedMsg emits no follow-up command.
C2_BarrierIdempotent ==
    [][(BothFlags /\ h.barrier >= 1) => h.barrier' = h.barrier]_vars

C4_PlanFileGiven ==
    ~m.needPlan =>
        /\ tfApplyModelInit(m) = <<>>
        /\ env.plan = "idle" /\ env.submit = "idle"
        /\ m.runPlanFinished
        /\ h.fwd = 0
        /\ ~InInbox("submitPlanNowMsg")
        /\ h.warmDelivered = 1 =>
              /\ h.barrier = 1
              /\ InInbox("startStartingSnapshotMsg") \/ h.startInit = 1

\* no plan needed, the warm-up message delivered, Starting entered
C4_Witness ==
    ~m.needPlan /\ h.warmDelivered = 1 /\ h.startInit = 1 /\ m.isStarting

\* C5: the apply subprocess is launched at most once, exactly once in a run
\* that completes, after the start-change Finish has gone through the loop
\* and before the end-change worker is initialised.
C5_OneLaunchBetweenWorkers ==
    /\ h.launches <= 1
    /\ h.launches >= 1 => h.startFinish >= 1
    /\ h.endInit >= 1 => (h.launches = 1 /\ applyProcs = 0)
    /\ h.endFinish >= 1 => h.launches = 1

\* a completed run: the end-change Finish processed after one launch
C5_Witness ==
    h.endFinish = 1 /\ h.launches = 1 /\ h.startFinish = 1 /\ quitReq /\ ~failed

ApplyFatal == fatalError(Wrap("failed to run terraform apply", h.applyErr))
IdentifyFatal == fatalError(Wrap("failed to identify change", h.identifyErr))

\* the fatal error x is on its way to the loop or is the one that stopped it
Surfaced(x) == BagIn(x, inbox) \/ (failed /\ h.fatalErr = x.err)

\* C6: the end of the apply subprocess resolves to one message: a launch
\* failure or a non-zero exit to a fatalError that wraps the process's error,
\* and then no tfApplyFinishedMsg exists and no end-change worker is started;
\* a clean exit to one tfApplyFinishedMsg, which sets isEnding and starts the
\* end-change worker once.
C6_ApplyResolution ==
    /\ h.applyOk + h.applyFail + applyProcs = h.launches
    /\ h.applyFail >= 1 =>
          /\ h.applyErr # NoErr /\ Surfaced(ApplyFatal)
          /\ ~InInbox("tfApplyFinishedMsg")
          /\ h.endInit = 0 /\ endWorkers = <<>> /\ ~m.isEnding
    /\ h.applyOk >= 1 =>
          /\ h.fatalErr = NoErr \/ Head(h.fatalErr) # "failed to run terraform apply"
          /\ \/ /\ CopiesIn(Msg("tfApplyFinishedMsg"), inbox) = 1
                /\ h.endInit = 0 /\ endWorkers = <<>> /\ ~m.isEnding
             \/ /\ ~InInbox("tfApplyFinishedMsg")
                /\ h.endInit = 1 /\ Len(endWorkers) = 1 /\ m.isEnding

\* the subprocess could not be launched and the run failed with that error
C6_Witness ==
    /\ h.applyFail = 1 /\ h.applyErr = <<"executable file not found">>
    /\ failed /\ h.fatalErr = ApplyFatal.err

\* C7: when getChangeUuid fails the start-change worker returns a fatalError
\* and has put nothing on its channel, no Finish exists, runTfApplyMsg is
\* never produced and the subprocess is never launched.
C7_IdentifyFailure ==
    h.identifyErr # NoErr =>
        /\ Surfaced(IdentifyFatal)
        /\ startingChange = <<>>
        /\ m.changeUuid = NilUuid
        /\ m.startingChangeSnapshot = NewSnapShotModel("Starting Change")
        /\ ~InInbox("changeIdentifiedMsg") /\ ~InInbox("startSnapshotMsg")
        /\ ~InInbox("progressSnapshotMsg") /\ ~InInbox("finishSnapshotMsg")
        /\ h.startFinish = 0
        /\ ~InInbox("runTfApplyMsg") /\ ~m.runTfApply
        /\ h.launches = 0 /\ applyProcs = 0

\* identify/create failed and the run ended on that error
C7_Witness ==
    /\ h.identifyErr # NoErr /\ failed /\ h.fatalErr = IdentifyFatal.err
    /\ h.startInit = 1 /\ h.launches = 0

C9_CancellationLeadsToQuit ==
    (sigs > 0 \/ ctxDone) ~> (watcher # "waiting" /\ h.watcherQuit = 1)

\* the watcher has returned after a signal while the start-change worker is
\* in the middle of its stream
C9_Witness ==
    /\ watcher = "sigs" /\ h.watcherQuit = 1
    /\ Len(startWorkers) = 1 /\ startWorkers[1].pc = "stream"
    /\ ~stopped

\* C10 as stated: both outcomes of the wait have called cancel() by the time
\* the watcher returns.
C10_BothOutcomesCancel ==
    h.watcherQuit = 1 => cancelCalled

\* C10 amended: the signal outcome calls cancel() before the watcher returns;
\* the context-done outcome returns without calling it, the context being
\* done already.
C10_SignalOutcomeCancels ==
    /\ watcher = "sigs" => (cancelCalled /\ ctxDone)
    /\ watcher = "ctx.Done" => (~cancelCalled /\ ctxDone)
    /\ h.watcherQuit = 1 => watcher # "waiting"

\* the watcher has returned through the context-done case
C10_Witness ==
    watcher = "ctx.Done" /\ h.watcherQuit = 1 /\ ~cancelCalled /\ sigs = 0

\* ------------------------------------------------- snapshots and Change id
IsSnapshotMsg(msg) ==
    msg.type \in {"startSnapshotMsg", "progressSnapshotMsg", "finishSnapshotMsg"}

Terminal(status) ==
    status \in {taskStatusDone, taskStatusError, taskStatusSkipped}

\* C11: a Start, Progress or Finish event whose id is not the id of a snapshot
\* leaves that snapshot's phase label, counts and status as they were when
\* it goes through Update: an event of the starting snapshot never changes
\* the ending snapshot, nor the other way round.
C11_ForeignEventIgnored ==
    [][\A msg \in BagToSet(inbox) :
          (IsSnapshotMsg(msg) /\ Deliver(msg)) =>
              /\ msg.id # StartingId =>
                    m'.startingChangeSnapshot = m.startingChangeSnapshot
              /\ msg.id # EndingId =>
                    m'.endingChangeSnapshot = m.endingChangeSnapshot]_vars

\* what a Finish addressed to snapshot s is to leave behind
Finished(s, msg) ==
    [task |-> [s.task EXCEPT !.status = taskStatusDone],
     state |-> msg.newState, items |-> msg.items, edges |-> msg.edges]

\* C12: a Finish event addressed to a snapshot sets its phase label and
\* counts as a Progress does and sets the status of its task to Done, so once
\* the Finish of a phase has been processed that phase's snapshot is Done.
C12_FinishMarksDone ==
    [][\A msg \in BagToSet(inbox) :
          (msg.type = "finishSnapshotMsg" /\ Deliver(msg)) =>
              /\ msg.id = StartingId =>
                    m'.startingChangeSnapshot =
                        Finished(m.startingChangeSnapshot, msg)
              /\ msg.id = EndingId =>
                    m'.endingChangeSnapshot =
                        Finished(m.endingChangeSnapshot, msg)]_vars

\* C13: the task of each snapshot is created Pending, is Running (or past it)
\* once its phase has been entered, and a status of Done, Error or Skipped
\* never changes again.
C13_StatusLifecycle ==
    /\ [](h.startInit = 0 =>
             m.startingChangeSnapshot.task.status = taskStatusPending)
    /\ [](h.endInit = 0 =>
             m.endingChangeSnapshot.task.status = taskStatusPending)
    /\ [](h.startInit >= 1 =>
             m.startingChangeSnapshot.task.status # taskStatusPending)
    /\ [](h.endInit >= 1 =>
             m.endingChangeSnapshot.task.status # taskStatusPending)
    /\ [][/\ Terminal(m.startingChangeSnapshot.task.status) =>
                m'.startingChangeSnapshot.task.status =
                    m.startingChangeSnapshot.task.status
          /\ Terminal(m.endingChangeSnapshot.task.status) =>
                m'.endingChangeSnapshot.task.status =
                    m.endingChangeSnapshot.task.status]_vars

\* C14: changeUuid is assigned at most once in a run, only when a
\* changeIdentifiedMsg goes through Update, that message coming from the
\* start-change worker after getChangeUuid succeeded; no other message and no
\* later changeIdentifiedMsg changes it.
C14_ChangeUuidAssignedOnce ==
    /\ [](m.changeUuid # NilUuid =>
             /\ h.identifyErr = NoErr
             /\ \E i \in DOMAIN startWorkers :
                   startWorkers[i].uuid = m.changeUuid)
    /\ [][m'.changeUuid # m.changeUuid =>
             \E msg \in BagToSet(inbox) :
                 /\ msg.type = "changeIdentifiedMsg" /\ Deliver(msg)
                 /\ m'.changeUuid = msg.uuid]_vars
    /\ [][\A msg \in BagToSet(inbox) :
             (msg.type = "changeIdentifiedMsg" /\ Deliver(msg)) =>
                 (m.changeUuid = NilUuid /\ m'.changeUuid # NilUuid)]_vars

\* the id assigned and, later, the end-change worker running with it
C14_Witness ==
    /\ m.changeUuid = ChangeUuid /\ h.endInit = 1
    /\ Len(endWorkers) = 1 /\ endWorkers[1].uuid = ChangeUuid

\* ------------------------------------------------------ end-to-end order
\* messages a waiter takes from the channel of phase ph
ChanOrigin(ph, x) ==
    \/ ph = "start" /\ x.type = "changeIdentifiedMsg"
    \/ /\ x.type \in {"startSnapshotMsg", "progressSnapshotMsg"}
       /\ x.id = SnapId(ph)

\* channel messages of phase ph that a waiter has handed to the loop and that
\* have not gone through Update yet
InFlight(ph) ==
    BagCardinality([x \in {y \in BagToSet(inbox) : ChanOrigin(ph, y)} |->
                       CopiesIn(x, inbox)])

\* nothing the worker of phase ph sent is on its way to the loop any more
Drained(ph) == Chan(ph) = <<>> /\ InFlight(ph) = 0

\* an error, a signal or a cancellation has come into the run
Disturbed ==
    failed \/ InInbox("fatalError") \/ sigs > 0 \/ ctxDone \/ watcher # "waiting"

\* no plan file, nothing has gone wrong, the warm-up not ahead of the plan
Scenario15 ==
    m.needPlan /\ ~Disturbed /\ h.first # "revlinkWarmupFinishedMsg"

\* the run has shut down through delayQuitMsg after the end-change Finish
ShutDown15 == h.endFinish = 1 /\ stopped /\ quitReq /\ ~failed

\* the phases follow each other: plan, submit, start-change Finish, one apply,
\* end-change Finish, scheduled shutdown
PhaseOrder15 ==
    /\ h.startInit >= 1 => (env.plan = "done" /\ env.submit = "done")
    /\ h.launches >= 1 => h.startFinish = 1
    /\ h.endInit >= 1 => (h.launches = 1 /\ h.applyOk = 1)
    /\ h.endFinish >= 1 => h.endInit = 1
    /\ (InInbox("delayQuitMsg") \/ stopped) => h.endFinish = 1

\* the scenario always comes to its shutdown unless it is disturbed
ReachesShutdown15 == m.needPlan ~> (ShutDown15 \/ Disturbed)

\* C15: with no plan file, no errors and the warm-up finishing after the
\* plan, the loop sees plan done, submit done, the start-change Start, its
\* Progress messages and then its Finish, one run of the apply subprocess,
\* the end-change Start, Progress messages and then Finish, and last the
\* scheduled shutdown; and every fair run gets to that shutdown.
C15_EndToEndOrder ==
    /\ [](Scenario15 =>
            /\ PhaseOrder15
            /\ h.startFinish >= 1 => Drained("start")
            /\ h.endFinish >= 1 => Drained("end"))
    /\ ReachesShutdown15

\* -------------------------------------------------------------- rendering
Rendered == screen # <<>>
Shown == m.startingChangeSnapshot
Lead == taskModelView(Shown.task) \o <<" - ", Shown.state>>

\* C16: snapshotModel.View renders (0,0) as "<status> - <phase>", (1,0) with
\* ": 1 item", (1,1) with ": 1 item, 1 edge", (N>1,0) with ": N items",
\* (N>1,1) with ": N items, 1 edge", and every other pair of counts, items 0
\* with edges or one item with several edges included, with
\* ": N items, M edges".
C16_ViewTable ==
    Rendered =>
        LET i == Shown.items
            e == Shown.edges
            N == ToString(i)
            M == ToString(e)
        IN  /\ (i = 0 /\ e = 0) => screen = Lead
            /\ (i = 1 /\ e = 0) => screen = Lead \o <<": 1 item">>
            /\ (i = 1 /\ e = 1) => screen = Lead \o <<": 1 item, 1 edge">>
            /\ (i > 1 /\ e = 0) => screen = Lead \o <<": ", N, " items">>
            /\ (i > 1 /\ e = 1) => screen = Lead \o <<": ", N, " items, 1 edge">>
            /\ (e > 1 \/ (i = 0 /\ e = 1)) =>
                  screen = Lead \o <<": ", N, " items, ", M, " edges">>

\* one item with two edges, rendered with both nouns in the plural
C16_Witness ==
    /\ Rendered /\ Shown.items = 1 /\ Shown.edges = 2
    /\ screen = Lead \o <<": ", "1", " items, ", "2", " edges">>

\* ------------------------------------------------- channels and waiters
\* Finish messages of phase ph on their way to the loop
NumFinish(ph) ==
    BagCardinality([x \in {y \in BagToSet(inbox) :
                             y.type = "finishSnapshotMsg" /\ y.id = SnapId(ph)} |->
                       CopiesIn(x, inbox)])

\* C17: everything a lifecycle worker emits, the Finish included, goes
\* through the channel of its phase and reaches the loop in the order of
\* emission: a Finish comes to the loop out of the channel, and when the loop
\* processes the Finish of a phase no change-identified, Start or Progress
\* message of that phase is still undelivered, so none is processed after it.
C17_ChannelOrder ==
    /\ [](h.startFinish >= 1 => Drained("start"))
    /\ [](h.endFinish >= 1 => Drained("end"))
    /\ [][NumFinish("start")' > NumFinish("start") =>
             Len(startingChange') < Len(startingChange)]_vars
    /\ [][NumFinish("end")' > NumFinish("end") =>
             Len(endingChange') < Len(endingChange)]_vars

\* C18: the Change id an end-change worker was started with is the id the
\* start-change worker got from getChangeUuid, never the zero value, however
\* the returned Finish and the changeIdentifiedMsg on the channel interleave.
C18_EndUsesIdentifiedId ==
    \A i \in DOMAIN endWorkers :
        /\ endWorkers[i].uuid # NilUuid
        /\ \E j \in DOMAIN startWorkers :
              startWorkers[j].uuid = endWorkers[i].uuid

Waiters(ph) == IF ph = "start" THEN startWaiters ELSE endWaiters
Entered(ph) == IF ph = "start" THEN h.startInit ELSE h.endInit

\* C19: for each channel at most one waiter is outstanding: none before the
\* phase is entered, and from then on either one waiter or one message that a
\* waiter has handed to the loop and whose processing issues the next waiter;
\* only a waiter receives from a channel, Update never does.
C19_OneWaiterPerChannel ==
    /\ [](\A ph \in Phases :
             /\ Waiters(ph) <= 1
             /\ Waiters(ph) + InFlight(ph) = Entered(ph))
    /\ [][\A msg \in BagToSet(inbox) :
             Deliver(msg) =>
                 /\ UNCHANGED chanVars
                 /\ startWaiters' = startWaiters
                        + (IF ChanOrigin("start", msg) THEN 1 ELSE 0)
                        + (IF msg.type = "startStartingSnapshotMsg" THEN 1 ELSE 0)
                 /\ endWaiters' = endWaiters
                        + (IF ChanOrigin("end", msg) THEN 1 ELSE 0)
                        + (IF msg.type = "tfApplyFinishedMsg" THEN 1 ELSE 0)]_vars
    /\ [][/\ Len(startingChange') < Len(startingChange) =>
                (startWaiters' = startWaiters - 1 /\ m' = m)
          /\ Len(endingChange') < Len(endingChange) =>
                (endWaiters' = endWaiters - 1 /\ m' = m)]_vars

\* the waiter issued again after a Progress of the end phase went through
\* Update, the channel empty
C19_Witness ==
    /\ m.isEnding /\ endWaiters = 1 /\ endingChange = <<>>
    /\ InFlight("end") = 0
    /\ Len(endWorkers) = 1 /\ endWorkers[1].pc = "stream"
    /\ startWaiters = 1 /\ h.startFinish = 1

\* C20: when needApproval is true the orchestrator does not go on to the
\* apply: no runTfApplyMsg is produced or acted on and no subprocess is
\* launched.  Update has no case for a confirmation message, so none is
\* ever received.
C20_ApprovalGatesApply ==
    m.needApproval =>
        /\ ~m.runTfApply /\ ~InInbox("runTfApplyMsg")
        /\ h.launches = 0 /\ applyProcs = 0

\* -------------------------------------------------------- full channels
\* The subprocess runs far longer than the loop needs for what the
\* start-change worker left on its channel: it exits once that is delivered.
ApplyExitsDrained == Drained("start") /\ ApplyExits

\* the run with streams of up to MaxStream responses, so that a worker can
\* find its channel full; signals and cancellation from outside are not
\* followed here
NextChan ==
    \/ \E msg \in BagToSet(inbox) : Deliver(msg)
    \/ \E msg \in BagToSet(inbox) : CmdFatalError(msg)
    \/ \E msg \in BagToSet(inbox) : CmdDelayQuit(msg)
    \/ \E i \in DOMAIN startWorkers : StartIdentify(i)
    \/ \E ph \in Phases : \E i \in DOMAIN Workers(ph) : WorkerSend(ph, i)
    \/ \E ph \in Phases : \E i \in DOMAIN Workers(ph) : WorkerOpenFails(ph, i)
    \/ \E ph \in Phases : \E i \in DOMAIN Workers(ph) : WorkerProgressLong(ph, i)
    \/ \E ph \in Phases : \E i \in DOMAIN Workers(ph) : WorkerStreamEnd(ph, i)
    \/ \E ph \in Phases : WaitForActivity(ph)
    \/ ApplyExitsDrained
    \/ EnvLoadSourcesConfig
    \/ EnvWarmupFinished
    \/ EnvPlanFinished
    \/ EnvPlanFailed
    \/ EnvSubmitFinished
    \/ EnvSubmitFailed

\* the loop and the goroutines of the commands keep being scheduled
SpecChan == Init /\ [][NextChan]_vars /\ WF_vars(NextChan)

\* a worker of phase ph is at a send and the channel has no room
SendBlocked(ph) ==
    /\ Len(Chan(ph)) = ChanCap
    /\ \E i \in DOMAIN Workers(ph) :
          Workers(ph)[i].pc \in {"sendId", "sendStart", "open", "stream"}

AllReturned(ph) ==
    \A i \in DOMAIN Workers(ph) : Workers(ph)[i].pc = "returned"

\* C21: a channel never holds more than ChanCap messages, and while the loop
\* runs no worker stays blocked at a send: a waiter or a message on its way
\* to re-arm one exists throughout the phase, a full channel is received
\* from again, and every worker comes to its return, however long its stream.
C21_NoSendDeadlock ==
    /\ [](\A ph \in Phases : Len(Chan(ph)) <= ChanCap)
    /\ [](\A ph \in Phases :
             (SendBlocked(ph) /\ ~stopped) => Waiters(ph) + InFlight(ph) = 1)
    /\ \A ph \in Phases :
          SendBlocked(ph) ~> (Len(Chan(ph)) < ChanCap \/ stopped)
    /\ \A ph \in Phases :
          (Workers(ph) # <<>>) ~> (AllReturned(ph) \/ stopped)

\* the end-change worker at its next Progress with the channel full, the
\* loop running
C21_Witness ==
    /\ ~stopped /\ SendBlocked("end")
    /\ endWorkers[1].pc = "stream" /\ endWorkers[1].n < MaxStream

====
